---------------------------- MODULE Spec2Model ----------------------------
(***************************************************************************)
(* A model of two pieces of the repository:                               *)
(*   - baby-bear/src/baby_bear.rs : the BabyBear prime field in Montgomery *)
(*     form (P = 2^31 - 2^27 + 1);                                         *)
(*   - uni-plonk/src/verifier.rs  : the verify entry point.                *)
(*                                                                         *)
(* TLC's integers are 32-bit signed, while the field code works on u32,   *)
(* u64 and u128 words.  Machine words are therefore modelled as naturals   *)
(* in little-endian limbs of 15 bits ("Big"), with no leading zero limb,   *)
(* so that equal numbers are equal sequences.  Every Rust operation is the *)
(* exact operation on naturals followed by the truncation of its type.     *)
(***************************************************************************)
EXTENDS Integers, Sequences, FiniteSets, TLC

VARIABLES
    \* ---- field engine (a BabyBear value being computed on) ----
    acc,        \* the stored Montgomery word of the current value (Big)
    rhs,        \* the stored word of the last operand (Big)
    prev,       \* the stored word of the value the last operation started from
    want,       \* the residue in [0,P) the current value stands for (Int)
    op,         \* the last operation applied
    arg,        \* the raw input of the last operation (a Big, or a sequence)
    out,        \* what the last operation returned besides the value
    overflow,   \* some checked (non-wrapping) machine operation overflowed
    nops,       \* number of operations applied so far
    \* ---- verifier (one call of verify) ----
    pc,         \* position in verify
    proof,      \* the proof handed to verify
    instance,   \* the public instance values
    transcript, \* the challenger: the calls made on it, in order
    gamma, alpha, zeta,   \* the sampled challenges
    request,    \* the multi-batch request handed to the PCS
    pcs_calls,  \* number of calls of verify_multi_batches
    pcs_outcome,\* what the PCS answered
    quotient,   \* the reconstructed quotient value
    expected,   \* the constraint-derived value the quotient should equal
    result      \* what verify returned

fvars == <<acc, rhs, prev, want, op, arg, out, overflow, nops>>
vvars == <<pc, proof, instance, transcript, gamma, alpha, zeta, request,
           pcs_calls, pcs_outcome, quotient, expected, result>>
vars == <<fvars, vvars>>

(***************************************************************************)
(* TLC evaluates operator arguments and LET definitions on first use, so a *)
(* long chain of dependent values would be evaluated as one deep nest.     *)
(* Let1(v, F) is F(v) with v evaluated first: the strict "let s = v; ...". *)
(***************************************************************************)
Let1(v, F(_)) == CASE v = v -> F(v)

(***************************************************************************)
(* Naturals of any width, in limbs of 15 bits.                             *)
(***************************************************************************)
LimbBase == 2^15
LimbBits == CHOOSE k \in 1..30 : 2^k = LimbBase

RECURSIVE Norm(_)
Norm(s) == IF s = <<>> THEN <<>>
           ELSE IF s[Len(s)] = 0 THEN Norm(SubSeq(s, 1, Len(s) - 1))
           ELSE s

RECURSIVE N2B(_)
N2B(n) == IF n = 0 THEN <<>> ELSE <<n % LimbBase>> \o N2B(n \div LimbBase)

Limb(s, i) == IF i <= Len(s) THEN s[i] ELSE 0
Rest(s) == IF s = <<>> THEN <<>> ELSE Tail(s)

\* the value of a Big below 2^31, as an integer (-1 for any other)
B2N(s) ==
    IF Len(s) > 3 \/ Limb(s, 3) > 1 THEN -1
    ELSE Limb(s, 1) + LimbBase * Limb(s, 2) + (LimbBase * LimbBase) * Limb(s, 3)

\* digits that may exceed a limb, carried into limbs
RECURSIVE Carry(_, _)
Carry(s, c) ==
    IF s = <<>> THEN (IF c = 0 THEN <<>> ELSE <<c>>)
    ELSE <<(s[1] + c) % LimbBase>> \o Carry(Tail(s), (s[1] + c) \div LimbBase)

RECURSIVE AddDigits(_, _)
AddDigits(x, y) ==
    IF x = <<>> THEN y
    ELSE IF y = <<>> THEN x
    ELSE <<x[1] + y[1]>> \o AddDigits(Tail(x), Tail(y))
BAdd(x, y) == Norm(Carry(AddDigits(x, y), 0))

\* x - y for x >= y
RECURSIVE BSubC(_, _, _)
BSubC(x, y, b) ==
    IF x = <<>> THEN <<>>
    ELSE IF x[1] - Limb(y, 1) - b < 0
         THEN <<x[1] - Limb(y, 1) - b + LimbBase>> \o BSubC(Tail(x), Rest(y), 1)
         ELSE <<x[1] - Limb(y, 1) - b>> \o BSubC(Tail(x), Rest(y), 0)
BSub(x, y) == Norm(BSubC(x, y, 0))

MulLo(a, b) == (a * b) % LimbBase
MulHi(a, b) == (a * b) \div LimbBase

RECURSIVE MulLimbDigits(_, _, _)
MulLimbDigits(x, d, hi) ==
    IF x = <<>> THEN <<hi>>
    ELSE <<MulLo(x[1], d) + hi>> \o MulLimbDigits(Tail(x), d, MulHi(x[1], d))

RECURSIVE MulDigits(_, _)
MulDigits(x, y) ==
    IF y = <<>> \/ x = <<>> THEN <<>>
    ELSE AddDigits(MulLimbDigits(x, y[1], 0), <<0>> \o MulDigits(x, Tail(y)))
BMulLong(x, y) == Norm(Carry(MulDigits(x, y), 0))

\* the same product for factors of at most three limbs: column k holds the low
\* halves of the limb products of weight k and the high halves of those of
\* weight k - 1
Mul3Digits(x1, x2, x3, y1, y2, y3) ==
    << MulLo(x1, y1),
       MulLo(x1, y2) + MulLo(x2, y1) + MulHi(x1, y1),
       MulLo(x1, y3) + MulLo(x2, y2) + MulLo(x3, y1) + MulHi(x1, y2) + MulHi(x2, y1),
       MulLo(x2, y3) + MulLo(x3, y2) + MulHi(x1, y3) + MulHi(x2, y2) + MulHi(x3, y1),
       MulLo(x3, y3) + MulHi(x2, y3) + MulHi(x3, y2),
       MulHi(x3, y3) >>
BMul3(x, y) ==
    Norm(Carry(Mul3Digits(Limb(x, 1), Limb(x, 2), Limb(x, 3),
                          Limb(y, 1), Limb(y, 2), Limb(y, 3)), 0))

BMul(x, y) == IF Len(x) <= 3 /\ Len(y) <= 3 THEN BMul3(x, y) ELSE BMulLong(x, y)

RECURSIVE BLtFrom(_, _, _)
BLtFrom(x, y, i) ==
    IF i = 0 THEN FALSE
    ELSE IF x[i] # y[i] THEN x[i] < y[i]
    ELSE BLtFrom(x, y, i - 1)
BLt(x, y) == IF Len(x) # Len(y) THEN Len(x) < Len(y) ELSE BLtFrom(x, y, Len(x))
BGe(x, y) == ~BLt(x, y)

\* x mod 2^k
BLow(x, k) ==
    IF Len(x) <= k \div LimbBits THEN x
    ELSE Norm(SubSeq(x, 1, k \div LimbBits)
                \o <<x[(k \div LimbBits) + 1] % (2^(k % LimbBits))>>)

\* x div 2^k
BShrLimbs(x, q, r) ==
    IF Len(x) <= q THEN <<>>
    ELSE Norm([i \in 1..(Len(x) - q) |->
                 (x[q + i] \div (2^r))
                   + (Limb(x, q + i + 1) % (2^r)) * (2^(LimbBits - r))])
BShr(x, k) == BShrLimbs(x, k \div LimbBits, k % LimbBits)

\* x * 2^k
BShl(x, k) ==
    IF x = <<>> THEN <<>>
    ELSE [i \in 1..(k \div LimbBits) |-> 0]
           \o Norm(Carry(MulLimbDigits(x, 2^(k % LimbBits), 0), 0))

RECURSIVE AndLimb(_, _)
AndLimb(a, b) == IF a = 0 \/ b = 0 THEN 0
                 ELSE IF b = LimbBase - 1 THEN a
                 ELSE (a % 2) * (b % 2) + 2 * AndLimb(a \div 2, b \div 2)
\* bitwise and
BAnd(x, y) ==
    Norm([i \in 1..(IF Len(x) < Len(y) THEN Len(x) ELSE Len(y)) |->
            AndLimb(x[i], y[i])])

\* x mod m for a modulus 0 < m < 2^31, as an integer
ModDbl(r, m) == IF r >= m - r THEN r - (m - r) ELSE r + r
RECURSIVE ModDblN(_, _, _)
ModDblN(r, m, n) ==
    IF n = 0 THEN r ELSE Let1(ModDbl(r, m), LAMBDA d : ModDblN(d, m, n - 1))
ModPlus(a, b, m) == IF a >= m - b THEN a - (m - b) ELSE a + b
RECURSIVE BModFrom(_, _, _, _)
BModFrom(x, m, i, r) ==
    IF i = 0 THEN r
    ELSE Let1(ModPlus(ModDblN(r, m, LimbBits), x[i] % m, m),
              LAMBDA d : BModFrom(x, m, i - 1, d))
BMod(x, m) == N2B(BModFrom(x, m, Len(x), 0))

Fits(x, bits) == BLow(x, bits) = x
Pow2(k) == BShl(<<1>>, k)

(***************************************************************************)
(* baby_bear.rs: constants                                                 *)
(***************************************************************************)
P == 2013265921
MONTY_BITS == 31
MONTY_MU == 134217729
SAMPLE_MASK == 134217727
BigP == N2B(P)
MONTY_MASK == BSub(Pow2(MONTY_BITS), <<1>>)

\* the casts to the machine words
U32(x) == BLow(x, 32)
U64(x) == BLow(x, 64)
U128(x) == BLow(x, 128)

(***************************************************************************)
(* baby_bear.rs: the reduction helpers                                     *)
(***************************************************************************)
\* canonical_sub without the correction by P after a borrow
canonical_sub_wrapping(x, y) ==
    IF BLt(x, y) THEN BSub(BAdd(x, Pow2(32)), y) ELSE BSub(x, y)

\* (diff, over) = x.overflowing_sub(y): diff is x - y + 2^32 when over; then
\* diff.wrapping_add(P) when over
canonical_sub(x, y) ==
    IF BLt(x, y)
    THEN U32(BAdd(BSub(BAdd(x, Pow2(32)), y), BigP))
    ELSE BSub(x, y)

\* (lo, hi) of a value of width 2 * MONTY_BITS
monty_split_double(x) ==
    [lo |-> BAnd(U32(x), MONTY_MASK), hi |-> U32(BShr(x, MONTY_BITS))]

\* x.wrapping_mul(y) & MONTY_MASK
monty_mul_lo(x, y) == BAnd(U32(BMul(x, y)), MONTY_MASK)

\* ((x as u64) * (y as u64)) >> MONTY_BITS, as u32
monty_mul_hi(x, y) == U32(BShr(U64(BMul(x, y)), MONTY_BITS))

\* t = monty_mul_lo(MONTY_MU, x_lo); u = monty_mul_hi(t, P); canonical_sub(x_hi, u)
monty_reduce_split(x_lo, x_hi) ==
    canonical_sub(x_hi, monty_mul_hi(monty_mul_lo(N2B(MONTY_MU), x_lo), BigP))
monty_reduce(x) ==
    monty_reduce_split(monty_split_double(x).lo, monty_split_double(x).hi)

to_monty(x) == U32(BMod(U64(BShl(x, 31)), P))
\* to_monty_64 with the shift done in 64 bits
to_monty_64_narrow(x) == U32(BMod(U64(BShl(x, 31)), P))
to_monty_64(x) == U32(BMod(U128(BShl(x, 31)), P))
from_monty(x) == monty_reduce(x)

(***************************************************************************)
(* baby_bear.rs: BabyBear, given by its stored word                        *)
(***************************************************************************)
ZERO == <<>>
ONE == N2B(134217727)
TWO == N2B(268435454)
NEG_ONE == N2B(1879048194)
Default == <<>>

from_wrapped_u32(n) == to_monty(n)
from_wrapped_u64(n) == to_monty_64(n)
from_canonical_u32(n) == from_wrapped_u32(n)
as_canonical_u32(x) == from_monty(x)

\* add reducing only a sum above P
add_reduce_above(sum) == IF BLt(BigP, sum) THEN BSub(sum, BigP) ELSE sum
\* if sum >= P { sum -= P }
add_reduce(sum) == IF BGe(sum, BigP) THEN BSub(sum, BigP) ELSE sum
add(x, y) == add_reduce(U32(BAdd(x, y)))
\* the checked u32 addition of add overflows
add_overflows(x, y) == ~Fits(BAdd(x, y), 32)

sub(x, y) == canonical_sub(x, y)
neg(x) == canonical_sub(<<>>, x)

mul(x, y) == monty_reduce(U64(BMul(x, y)))
\* a checked u64 product of mul or of monty_mul_hi overflows, or a cast to
\* u32 in monty_split_double or monty_mul_hi loses bits
mul_hi_overflows(t) ==
    \/ ~Fits(BMul(t, BigP), 64)
    \/ ~Fits(BShr(U64(BMul(t, BigP)), MONTY_BITS), 32)
mul_overflows(x, y) ==
    \/ ~Fits(BMul(x, y), 64)
    \/ ~Fits(BShr(U64(BMul(x, y)), MONTY_BITS), 32)
    \/ mul_hi_overflows(monty_mul_lo(N2B(MONTY_MU),
                                     monty_split_double(U64(BMul(x, y))).lo))

\* iter.reduce(|x, y| x + y).unwrap_or(ZERO)
RECURSIVE reduce_add(_, _)
reduce_add(x, s) ==
    IF s = <<>> THEN x
    ELSE Let1(add(x, Head(s)), LAMBDA y : reduce_add(y, Tail(s)))
sum(s) == IF s = <<>> THEN ZERO ELSE reduce_add(Head(s), Tail(s))

\* iter.reduce(|x, y| x * y).unwrap_or(ONE)
RECURSIVE reduce_mul(_, _)
reduce_mul(x, s) ==
    IF s = <<>> THEN x
    ELSE Let1(mul(x, Head(s)), LAMBDA y : reduce_mul(y, Tail(s)))
product(s) == IF s = <<>> THEN ONE ELSE reduce_mul(Head(s), Tail(s))

cmp_u32(a, b) == IF BLt(a, b) THEN "Less" ELSE IF a = b THEN "Equal" ELSE "Greater"
cmp(x, y) == cmp_u32(as_canonical_u32(x), as_canonical_u32(y))

is_zero(x) == x = ZERO
square(x) == mul(x, x)
RECURSIVE exp_power_of_2(_, _)
exp_power_of_2(x, k) ==
    IF k = 0 THEN x
    ELSE Let1(square(x), LAMBDA s : exp_power_of_2(s, k - 1))

\* the addition chain of try_inverse, one row per line of the source: the
\* exponent reached, and how the value is obtained from earlier rows
\* (sq: a.square(), mul: a * b, exp2: a.exp_power_of_2(k))
InverseSteps == <<
    [e |-> 1,          f |-> "self"],
    [e |-> 2,          f |-> "sq",   a |-> 1],
    [e |-> 3,          f |-> "mul",  a |-> 1,     b |-> 2],
    [e |-> 6,          f |-> "mul",  a |-> 3,     b |-> 3],
    [e |-> 7,          f |-> "mul",  a |-> 1,     b |-> 6],
    [e |-> 56,         f |-> "exp2", a |-> 7,     k |-> 3],
    [e |-> 63,         f |-> "mul",  a |-> 7,     b |-> 56],
    [e |-> 4032,       f |-> "exp2", a |-> 63,    k |-> 6],
    [e |-> 4095,       f |-> "mul",  a |-> 63,    b |-> 4032],
    [e |-> 8190,       f |-> "sq",   a |-> 4095],
    [e |-> 12285,      f |-> "mul",  a |-> 4095,  b |-> 8190],
    [e |-> 24570,      f |-> "sq",   a |-> 12285],
    [e |-> 28665,      f |-> "mul",  a |-> 4095,  b |-> 24570],
    [e |-> 28672,      f |-> "mul",  a |-> 7,     b |-> 28665],
    [e |-> 32767,      f |-> "mul",  a |-> 4095,  b |-> 28672],
    [e |-> 61439,      f |-> "mul",  a |-> 28672, b |-> 32767],
    [e |-> 2013233152, f |-> "exp2", a |-> 61439, k |-> 15],
    [e |-> 2013265919, f |-> "mul",  a |-> 32767, b |-> 2013233152] >>

\* the value of the row of exponent e among the rows computed so far
ChainAt(c, e) == c[CHOOSE i \in 1..Len(c) : c[i].e = e].v

\* a product of the chain taking its first operand twice
inverse_step_same_operand(x1, c, st) ==
    CASE st.f = "self" -> x1
      [] st.f = "sq"   -> square(ChainAt(c, st.a))
      [] st.f = "mul"  -> mul(ChainAt(c, st.a), ChainAt(c, st.a))
      [] st.f = "exp2" -> exp_power_of_2(ChainAt(c, st.a), st.k)

inverse_step(x1, c, st) ==
    CASE st.f = "self" -> x1
      [] st.f = "sq"   -> square(ChainAt(c, st.a))
      [] st.f = "mul"  -> mul(ChainAt(c, st.a), ChainAt(c, st.b))
      [] st.f = "exp2" -> exp_power_of_2(ChainAt(c, st.a), st.k)

\* every intermediate power of the chain, by its exponent, in source order
RECURSIVE inverse_chain_from(_, _, _)
inverse_chain_from(x1, c, i) ==
    IF i > Len(InverseSteps) THEN c
    ELSE Let1(inverse_step(x1, c, InverseSteps[i]),
              LAMBDA v : inverse_chain_from(
                             x1, Append(c, [e |-> InverseSteps[i].e, v |-> v]), i + 1))
inverse_chain(x1) == inverse_chain_from(x1, <<>>, 1)

None == [some |-> FALSE]
Some(v) == [some |-> TRUE, v |-> v]

Last(c) == c[Len(c)]
try_inverse(x) ==
    IF is_zero(x) THEN None ELSE Some(Last(inverse_chain(x)).v)

\* dot = sum of u[i] * v[i].value in u64, then dot % P
RECURSIVE dot_u64(_, _, _)
dot_u64(u, v, i) ==
    IF i = 1 THEN U64(BMul(u[1], v[1]))
    ELSE U64(BAdd(dot_u64(u, v, i - 1), U64(BMul(u[i], v[i]))))
linear_combination_u64(u, v) == U32(BMod(dot_u64(u, v, Len(u)), P))

\* the loop of sample over the words rng.next_u32() yields, in order
sample_accepts(next_u31) == BLt(next_u31, BigP)
RECURSIVE sample(_)
sample(rng) ==
    IF rng = <<>> THEN None
    ELSE IF sample_accepts(BAnd(Head(rng), N2B(SAMPLE_MASK)))
         THEN Some(BAnd(Head(rng), N2B(SAMPLE_MASK)))
         ELSE sample(Tail(rng))

(***************************************************************************)
(* Arithmetic modulo P on the residues themselves (integers in [0,P)),     *)
(* by addition and doubling only: what the field operations are to be      *)
(* faithful to.                                                            *)
(***************************************************************************)
RefAdd(a, b) == ModPlus(a, b, P)
RefNeg(a) == IF a = 0 THEN 0 ELSE P - a
RefSub(a, b) == IF a >= b THEN a - b ELSE P - (b - a)
RECURSIVE RefMulAcc(_, _, _)
RefMulAcc(a, b, r) ==
    IF b = 0 THEN r
    ELSE Let1(<<ModDbl(a, P), IF b % 2 = 1 THEN ModPlus(r, a, P) ELSE r>>,
              LAMBDA n : RefMulAcc(n[1], b \div 2, n[2]))
RefMul(a, b) == RefMulAcc(a, b, 0)
RefOfBig(n) == BModFrom(n, P, Len(n), 0)
RECURSIVE RefSum(_)
RefSum(s) == IF s = <<>> THEN 0 ELSE RefAdd(Head(s), RefSum(Tail(s)))
RECURSIVE RefProduct(_)
RefProduct(s) == IF s = <<>> THEN 1 ELSE RefMul(Head(s), RefProduct(Tail(s)))
RECURSIVE RefDot(_, _)
RefDot(u, c) ==
    IF u = <<>> THEN 0
    ELSE RefAdd(RefMul(RefOfBig(Head(u)), Head(c)), RefDot(Tail(u), Tail(c)))

\* a^e by square-and-multiply over the bits of e, lowest first
RECURSIVE naive_pow_acc(_, _, _)
naive_pow_acc(base, e, r) ==
    IF e = 0 THEN r
    ELSE Let1(<<IF e > 1 THEN square(base) ELSE base,
                IF e % 2 = 1 THEN mul(r, base) ELSE r>>,
              LAMBDA n : naive_pow_acc(n[1], e \div 2, n[2]))
naive_pow(a, e) == naive_pow_acc(a, e, ONE)

(***************************************************************************)
(* The inputs the operations are applied to.                               *)
(***************************************************************************)
MaxOps == 2

\* canonical integers, for from_canonical_u32 (its precondition is n < P);
\* 125829121 is the one whose stored word is the greatest, P - 1
CanonInputs == {0, 1, 100, 125829121, 873888856, 1643323515, P - 2, P - 1}
\* operands of the binary operations, by their canonical integer
Operands == {0, 125829121, 1643323515, P - 1}
\* any 32-bit words
U32Inputs == {<<>>, <<1>>, N2B(100), N2B(P - 1), BigP, N2B(P + 1), Pow2(31),
              BSub(Pow2(32), <<1>>)}
\* any 64-bit words
U64Inputs == {<<>>, BigP, BMul(BigP, BigP), Pow2(32), Pow2(62),
              BAdd(Pow2(63), N2B(12345)), BSub(Pow2(64), <<1>>)}
\* words rng.next_u32() may yield
RngWords == {<<>>, <<1>>, N2B(SAMPLE_MASK), N2B(SAMPLE_MASK + 1), N2B(P - 1),
             BigP, N2B(2147483647), BSub(Pow2(32), <<1>>)}
RngStreams == {<<w>> : w \in RngWords}
                \cup {<<BigP, w>> : w \in {<<>>, N2B(P - 1)}}
\* coefficient vectors of linear_combination_u64 (their sum is at most 2^32)
LcCoeffs == {<<<<3>>, <<5>>>>, <<Pow2(31), Pow2(31)>>,
             <<<<1>>, BSub(Pow2(32), <<1>>)>>}

Elem(b) == [v |-> from_canonical_u32(N2B(b)), c |-> b]
Cur == [v |-> acc, c |-> want]
\* the sequences sum and product are applied to
OperandSeqs == {<<>>, <<Cur>>, <<Cur, Elem(P - 1), Cur>>}
Vals(s) == [i \in 1..Len(s) |-> s[i].v]
Canons(s) == [i \in 1..Len(s) |-> s[i].c]

(***************************************************************************)
(* The field engine as a machine: one BabyBear value, and the operations   *)
(* of baby_bear.rs applied to it.                                          *)
(***************************************************************************)
VerifierIdle ==
    /\ pc = "idle" /\ proof = <<>> /\ instance = <<>> /\ transcript = <<>>
    /\ gamma = <<>> /\ alpha = <<>> /\ zeta = <<>> /\ request = <<>>
    /\ pcs_calls = 0 /\ pcs_outcome = "none" /\ quotient = <<>>
    /\ expected = <<>> /\ result = "none"

Constants == {[v |-> ZERO, c |-> 0], [v |-> ONE, c |-> 1], [v |-> TWO, c |-> 2],
              [v |-> NEG_ONE, c |-> P - 1], [v |-> Default, c |-> 0]}

FieldInit ==
    /\ acc = Default /\ want = 0
    /\ rhs = ZERO /\ prev = ZERO
    /\ op = "default" /\ arg = <<>> /\ out = None
    /\ overflow = FALSE /\ nops = 0
    /\ VerifierIdle

\* a value is built or replaced: the earlier one takes no part
Load(name, input, v, c) ==
    /\ nops < MaxOps
    /\ acc' = v /\ want' = c
    /\ rhs' = ZERO /\ prev' = ZERO
    /\ op' = name /\ arg' = input /\ out' = None
    /\ overflow' = FALSE
    /\ nops' = nops + 1
    /\ UNCHANGED vvars

\* the current value is combined with an operand
Apply(name, input, y, v, c, o, ovf) ==
    /\ nops < MaxOps
    /\ acc' = v /\ want' = c
    /\ rhs' = y /\ prev' = acc
    /\ op' = name /\ arg' = input /\ out' = o
    /\ overflow' = (overflow \/ ovf)
    /\ nops' = nops + 1
    /\ UNCHANGED vvars

Const ==
    \E k \in Constants : Load("const", <<>>, k.v, k.c)

FromCanonicalU32 ==
    \E n \in CanonInputs :
        Load("from_canonical_u32", N2B(n), from_canonical_u32(N2B(n)), n)

FromWrappedU32 ==
    \E n \in U32Inputs :
        Load("from_wrapped_u32", n, from_wrapped_u32(n), RefOfBig(n))

FromWrappedU64 ==
    \E n \in U64Inputs :
        Load("from_wrapped_u64", n, from_wrapped_u64(n), RefOfBig(n))

SampleReturns(rng, r) ==
    /\ r.some
    /\ Load("sample", rng, r.v, B2N(from_monty(r.v)))
Sample ==
    /\ nops < MaxOps
    /\ \E rng \in RngStreams : SampleReturns(rng, sample(rng))

LinearCombinationOf(u, v) ==
    Apply("linear_combination_u64", u, v[2].v, linear_combination_u64(u, Vals(v)),
          RefDot(u, Canons(v)), None, FALSE)
LinearCombination ==
    /\ nops < MaxOps
    /\ \E u \in LcCoeffs : LinearCombinationOf(u, <<Cur, Elem(1643323515)>>)

AddOf(b, y) ==
    Apply("add", N2B(b), y, add(acc, y), RefAdd(want, b), None, add_overflows(acc, y))
Add ==
    /\ nops < MaxOps
    /\ \E b \in Operands : AddOf(b, Elem(b).v)

SubOf(b, y) ==
    Apply("sub", N2B(b), y, sub(acc, y), RefSub(want, b), None, FALSE)
Sub ==
    /\ nops < MaxOps
    /\ \E b \in Operands : SubOf(b, Elem(b).v)

Neg == Apply("neg", <<>>, ZERO, neg(acc), RefNeg(want), None, FALSE)

MulOf(b, y) ==
    Apply("mul", N2B(b), y, mul(acc, y), RefMul(want, b), None, mul_overflows(acc, y))
Mul ==
    /\ nops < MaxOps
    /\ \E b \in Operands : MulOf(b, Elem(b).v)

SumOf(v, c) == Apply("sum", v, ZERO, sum(v), RefSum(c), None, FALSE)
Sum ==
    /\ nops < MaxOps
    /\ \E s \in OperandSeqs : SumOf(Vals(s), Canons(s))

ProductOf(v, c) == Apply("product", v, ZERO, product(v), RefProduct(c), None, FALSE)
Product ==
    /\ nops < MaxOps
    /\ \E s \in OperandSeqs : ProductOf(Vals(s), Canons(s))

TryInverseReturns(r) ==
    IF r.some
    THEN Apply("try_inverse", <<>>, ZERO, r.v, B2N(from_monty(r.v)), r, FALSE)
    ELSE Apply("try_inverse", <<>>, ZERO, acc, want, r, FALSE)
TryInverse ==
    /\ nops < MaxOps
    /\ TryInverseReturns(try_inverse(acc))

FieldNext ==
    \/ Const \/ FromCanonicalU32 \/ FromWrappedU32 \/ FromWrappedU64 \/ Sample
    \/ LinearCombination \/ Add \/ Sub \/ Neg \/ Mul \/ Sum \/ Product
    \/ TryInverse

FieldSpec == FieldInit /\ [][FieldNext]_vars

(***************************************************************************)
(* try_inverse as a function of its argument: the argument is drawn, and   *)
(* try_inverse is applied to it and to what it returns.                    *)
(***************************************************************************)
MaxInverseArg == 40
InverseInputs == (0..MaxInverseArg) \cup CanonInputs

InverseInit ==
    /\ \E n \in InverseInputs : acc = Elem(n).v /\ want = n
    /\ rhs = ZERO /\ prev = ZERO
    /\ op = "from_canonical_u32" /\ arg = <<>> /\ out = None
    /\ overflow = FALSE /\ nops = 0
    /\ VerifierIdle

InverseSpec == InverseInit /\ [][TryInverse]_vars

\* the powers the chain is to pass through
ChainPowers ==
    <<1, 2, 3, 6, 7, 56, 63, 4032, 4095, 8190, 12285, 24570, 28665, 28672, 32767,
      61439, 2013233152, 2013265919>>
ChainMatches(c, a) ==
    /\ [i \in 1..Len(c) |-> c[i].e] = ChainPowers
    /\ \A i \in 1..Len(c) : c[i].v = naive_pow(a, c[i].e)

\* C6: try_inverse returns None exactly for the additive identity; for any
\* other a it returns Some(b) with a * b = ONE, b is what square-and-multiply
\* gives for a^(P-2), and the values of the addition chain are the powers of
\* a with the exponents 1, 2, 3, 6, 7, ..., 2013265919.
InverseCorrect ==
    op = "try_inverse" =>
        /\ out.some <=> ~is_zero(prev)
        /\ out.some =>
              /\ mul(prev, out.v) = ONE
              /\ out.v = acc
              /\ out.v = naive_pow(prev, P - 2)
              /\ ChainMatches(inverse_chain(prev), prev)

InverseWitness ==
    /\ op = "try_inverse" /\ out.some
    /\ prev = Elem(100).v
    /\ B2N(as_canonical_u32(out.v)) = 382520525

(***************************************************************************)
(* The properties of the field operations.                                 *)
(***************************************************************************)
canonical(x) == B2N(as_canonical_u32(x))

\* C5: after x + y, x - y, -x and x * y the canonical value of the result is
\* the sum, difference, negation and product modulo P of the canonical values
\* of the operands (want is that residue, computed on the integers), and no
\* checked u32 or u64 operation on the way has overflowed; mul is monty_reduce
\* of the product of the stored words.
RingFaithful ==
    /\ ~overflow
    /\ op \in {"add", "sub", "neg", "mul"} =>
          /\ canonical(acc) = want
          /\ canonical(rhs) = B2N(arg)
    /\ op = "add" => canonical(acc) = RefAdd(canonical(prev), canonical(rhs))
    /\ op = "sub" => canonical(acc) = RefSub(canonical(prev), canonical(rhs))
    /\ op = "neg" => canonical(acc) = RefNeg(canonical(prev))
    /\ op = "mul" =>
          /\ canonical(acc) = RefMul(canonical(prev), canonical(rhs))
          /\ acc = monty_reduce(BMul(prev, rhs))

\* from_canonical(0x34167c58) * from_canonical(0x61f3207b)
RingWitness ==
    /\ op = "mul"
    /\ prev = from_canonical_u32(N2B(873888856))
    /\ rhs = from_canonical_u32(N2B(1643323515))
    /\ canonical(acc) = 459046982

\* C7: the canonical value of from_wrapped_u32(n) and of from_wrapped_u64(n)
\* is n mod P, so that from_wrapped of P is the additive identity; every
\* element a is from_canonical of its canonical value; and the canonical
\* value is monty_reduce of the stored word as the low half, the high half 0.
WrapRoundTrip ==
    /\ op \in {"from_wrapped_u32", "from_wrapped_u64"} =>
          /\ canonical(acc) = RefOfBig(arg)
          /\ arg = BigP => acc = ZERO
    /\ from_canonical_u32(as_canonical_u32(acc)) = acc
    /\ as_canonical_u32(acc) = monty_reduce_split(acc, <<>>)

\* from_wrapped_u64(2^64 - 1)
WrapWitness ==
    /\ op = "from_wrapped_u64"
    /\ arg = BSub(Pow2(64), <<1>>)
    /\ canonical(acc) = 1172168162

\* stored words the sampling is to be able to return: the least, the greatest
\* of 27 bits, the next one, and the greatest
SampleTargets == {<<>>, N2B(SAMPLE_MASK), N2B(SAMPLE_MASK + 1), N2B(P - 1)}
\* the result of sample when the generator yields w and then 0
SampleOf(w) == sample(<<w, <<>>>>).v

\* C8: sample returns the masked value of the first word whose masked value
\* is below P, and every element of [0,P) is the result for some word: here
\* the elements of SampleTargets, for words of RngWords.
SampleUniform ==
    op = "sample" =>
        /\ BLt(acc, BigP)
        /\ \A t \in SampleTargets : \E w \in RngWords : SampleOf(w) = t

\* C9: the stored word of the value, of the operand and of the value before
\* is below P, whatever built them: a constant, a constructor, sample,
\* linear_combination_u64, or add, sub, neg, mul, sum, product, try_inverse on
\* such values; two of them have the same stored word exactly when they have
\* the same canonical value; and cmp orders them totally, Equal exactly for
\* the same value.
Compared == {acc, rhs, prev}
StoredWordReduced ==
    /\ \A x \in Compared : BLt(x, BigP)
    /\ out.some => BLt(out.v, BigP)
    /\ \A x, y \in Compared :
          /\ (x = y) <=> (as_canonical_u32(x) = as_canonical_u32(y))
          /\ (cmp(x, y) = "Equal") <=> (x = y)
          /\ (cmp(x, y) = "Less") <=> (cmp(y, x) = "Greater")
    /\ \A x, y, z \in Compared :
          (cmp(x, y) = "Less" /\ cmp(y, z) = "Less") => cmp(x, z) = "Less"

\* an addition whose sum of stored words is exactly P
StoredWordWitness ==
    /\ op = "add"
    /\ BAdd(prev, rhs) = BigP
    /\ acc = ZERO

(***************************************************************************)
(* verifier.rs is generic in the configuration C and the engine E. The     *)
(* model fixes them: C::Val is the prime field of 17 elements, whose       *)
(* two-adic subgroup has order 2^4 and is generated by 3; C::Challenge is  *)
(* its extension Val[X]/(X^2 - 3) of degree D, an element given by its     *)
(* coefficients in the monomial basis.                                     *)
(***************************************************************************)
ValP == 17
D == 2
LOG_QUOTIENT_DEGREE == 1

RECURSIVE ValPow(_, _)
ValPow(a, n) == IF n = 0 THEN 1 ELSE (a * ValPow(a, n - 1)) % ValP
\* Val::two_adic_generator(bits): a generator of the subgroup of order 2^bits
two_adic_generator(bits) == ValPow(3, 2^(4 - bits))

ExtZero == [i \in 1..D |-> 0]
ExtOne == [i \in 1..D |-> IF i = 1 THEN 1 ELSE 0]
ExtAdd(x, y) == [i \in 1..D |-> (x[i] + y[i]) % ValP]
ExtMul(x, y) == << (x[1] * y[1] + 3 * x[2] * y[2]) % ValP,
                   (x[1] * y[2] + x[2] * y[1]) % ValP >>
\* Challenge * Val
ExtScale(x, c) == [i \in 1..D |-> (x[i] * c) % ValP]
\* Challenge::monomial(i): the i-th basis element, i counted from 0
monomial(i) == [j \in 1..D |-> IF j = i + 1 THEN 1 ELSE 0]
RECURSIVE ext_exp_power_of_2(_, _)
ext_exp_power_of_2(x, k) ==
    IF k = 0 THEN x ELSE ext_exp_power_of_2(ExtMul(x, x), k - 1)
RECURSIVE ExtSum(_)
ExtSum(s) == IF s = <<>> THEN ExtZero ELSE ExtAdd(Head(s), ExtSum(Tail(s)))

\* to_values: the base-field coefficients of a sequence of Challenge elements
RECURSIVE to_values(_)
to_values(s) == IF s = <<>> THEN <<>> ELSE Head(s) \o to_values(Tail(s))

\* slice.chunks(n): consecutive chunks of n elements, the last one shorter
\* when the length is not a multiple of n
RECURSIVE chunks(_, _)
chunks(s, n) ==
    IF s = <<>> THEN <<>>
    ELSE IF Len(s) <= n THEN <<s>>
    ELSE <<SubSeq(s, 1, n)>> \o chunks(SubSeq(s, n + 1, Len(s)), n)

IsPowerOfTwo(n) == \E k \in 0..n : 2^k = n
Log2(n) == CHOOSE k \in 0..n : 2^k = n
RECURSIVE reverse_bits_len(_, _)
reverse_bits_len(i, bits) ==
    IF bits = 0 THEN 0
    ELSE (i % 2) * 2^(bits - 1) + reverse_bits_len(i \div 2, bits - 1)
\* reverse_slice_index_bits, for a slice whose length is a power of two (any
\* other nonzero length fails its log2 assertion)
reverse_slice_index_bits(s) ==
    [i \in 1..Len(s) |-> s[reverse_bits_len(i - 1, Log2(Len(s))) + 1]]
reverse_slice_index_bits_panics(s) == s # <<>> /\ ~IsPowerOfTwo(Len(s))

\* x.powers(): the first n of 1, x, x^2, ...
RECURSIVE powers(_, _)
powers(x, n) ==
    IF n = 0 THEN <<>>
    ELSE <<ExtOne>> \o [i \in 1..(n - 1) |-> ExtMul(x, powers(x, n - 1)[i])]

(***************************************************************************)
(* The proofs and instances verify is called with.                         *)
(***************************************************************************)
MaxQuotientLen == 6
MaxLogDegree == 2

Commitments ==
    [fixed |-> "com_fixed", advice |-> "com_advice",
     multiset_f |-> "com_multiset_f", quotient |-> "com_quotient"]
OpenedTrace ==
    [fixed_local |-> <<<<1, 0>>>>, fixed_next |-> <<<<2, 0>>>>,
     advice_local |-> <<<<3, 1>>>>, advice_next |-> <<<<4, 1>>>>,
     multiset_f_local |-> <<<<5, 2>>>>, multiset_f_next |-> <<<<6, 2>>>>]
RECURSIVE QuotientValues(_)
QuotientValues(n) ==
    IF n = 0 THEN {<<>>}
    ELSE QuotientValues(n - 1)
           \cup {Append(q, v) : q \in {r \in QuotientValues(n - 1) : Len(r) = n - 1},
                                v \in {1, 5}}
Proofs ==
    [commitments : {Commitments},
     opened_values : {OpenedTrace @@ [quotient |-> q] :
                        q \in QuotientValues(MaxQuotientLen)},
     opening_proof : {"opening_proof"},
     multiset_sums : {<<<<7, 3>>, <<8, 4>>>>},
     log_degree : 0..MaxLogDegree]
\* RowMajorMatrix: the values row by row, and the width of a row
Instances == {[values |-> <<9, 10>>, width |-> w] : w \in {1, 2}}
\* what the challenger may return for a sample
Challenges == {<<2, 0>>, <<3, 1>>}
\* the errors the PCS may return
PcsErrors == {"InvalidProofShape", "OpeningMismatch"}

FieldIdle ==
    /\ acc = Default /\ want = 0 /\ rhs = ZERO /\ prev = ZERO
    /\ op = "default" /\ arg = <<>> /\ out = None
    /\ overflow = FALSE /\ nops = 0

Init ==
    /\ FieldIdle
    /\ pc = "observe_fixed"
    /\ proof \in Proofs
    /\ instance \in Instances
    /\ expected \in {ExtZero, <<1, 0>>}
    /\ transcript = <<>>
    /\ gamma = <<>> /\ alpha = <<>> /\ zeta = <<>>
    /\ request = <<>> /\ pcs_calls = 0 /\ pcs_outcome = "none"
    /\ quotient = <<>> /\ result = "none"

(***************************************************************************)
(* verify, one action per call it makes on the challenger or the PCS. The  *)
(* transcript is the challenger's state: the calls made on it, in order.   *)
(***************************************************************************)
g_subgroup == two_adic_generator(proof.log_degree)

\* the calls on the challenger, each with its argument or its result, and
\* with who made it
Observed(v) == [call |-> "observe", value |-> v, by |-> "verify"]
ObservedSlice(v) == [call |-> "observe_slice", value |-> v, by |-> "verify"]
Sampled(v) == [call |-> "sample_ext_element", value |-> v, by |-> "verify"]
PcsObserved(v) == [call |-> "observe", value |-> v, by |-> "pcs"]

\* a call on the challenger, after which verify is at the line `next`
Call(at, entry, next) ==
    /\ pc = at
    /\ transcript' = Append(transcript, entry)
    /\ pc' = next
    /\ UNCHANGED <<fvars, proof, instance, request, pcs_calls, pcs_outcome,
                   quotient, expected, result>>

ObserveFixed ==
    /\ Call("observe_fixed", Observed(proof.commitments.fixed), "observe_advice")
    /\ UNCHANGED <<gamma, alpha, zeta>>

\* the advice line observing commitments.fixed a second time
ObserveAdviceRepeatsFixed ==
    /\ Call("observe_advice", Observed(proof.commitments.fixed), "observe_instance")
    /\ UNCHANGED <<gamma, alpha, zeta>>

ObserveAdvice ==
    /\ Call("observe_advice", Observed(proof.commitments.advice), "observe_instance")
    /\ UNCHANGED <<gamma, alpha, zeta>>

ObserveInstance ==
    /\ Call("observe_instance", ObservedSlice(instance.values), "sample_gamma")
    /\ UNCHANGED <<gamma, alpha, zeta>>

SampleGamma ==
    \E c \in Challenges :
        /\ Call("sample_gamma", Sampled(c), "observe_multiset_f")
        /\ gamma' = c
        /\ UNCHANGED <<alpha, zeta>>

ObserveMultisetF ==
    /\ Call("observe_multiset_f", Observed(proof.commitments.multiset_f),
            "observe_multiset_sums")
    /\ UNCHANGED <<gamma, alpha, zeta>>

ObserveMultisetSums ==
    /\ Call("observe_multiset_sums", ObservedSlice(to_values(proof.multiset_sums)),
            "sample_alpha")
    /\ UNCHANGED <<gamma, alpha, zeta>>

SampleAlpha ==
    \E c \in Challenges :
        /\ Call("sample_alpha", Sampled(c), "observe_quotient")
        /\ alpha' = c
        /\ UNCHANGED <<gamma, zeta>>

ObserveQuotient ==
    /\ Call("observe_quotient", Observed(proof.commitments.quotient), "sample_zeta")
    /\ UNCHANGED <<gamma, alpha, zeta>>

SampleZeta ==
    \E c \in Challenges :
        /\ Call("sample_zeta", Sampled(c), "pcs_verify")
        /\ zeta' = c
        /\ UNCHANGED <<gamma, alpha>>

local_and_next(z, g) == <<z, ExtScale(z, g)>>

\* the quotient commitment opened at zeta itself
commits_and_points_at_zeta(commitments, points, z, log_quotient_degree) ==
    << [commit |-> commitments.fixed, points |-> points],
       [commit |-> commitments.advice, points |-> points],
       [commit |-> commitments.multiset_f, points |-> points],
       [commit |-> commitments.quotient, points |-> <<z>>] >>

commits_and_points(commitments, points, z, log_quotient_degree) ==
    << [commit |-> commitments.fixed, points |-> points],
       [commit |-> commitments.advice, points |-> points],
       [commit |-> commitments.multiset_f, points |-> points],
       [commit |-> commitments.quotient,
        points |-> <<ext_exp_power_of_2(z, log_quotient_degree)>>] >>

values(opened_values) ==
    << << <<opened_values.fixed_local, opened_values.fixed_next>> >>,
       << <<opened_values.advice_local, opened_values.advice_next>> >>,
       << <<opened_values.multiset_f_local, opened_values.multiset_f_next>> >>,
       << <<opened_values.quotient>> >> >>

\* the error of the PCS handed on as it is
map_err_keeps_kind(outcome) == outcome

\* .map_err(|_| VerificationError::InvalidOpeningArgument)
map_err(outcome) == IF outcome = "ok" THEN "ok" ELSE "InvalidOpeningArgument"

\* the call of verify_multi_batches: the PCS is handed the challenger itself,
\* may make calls of its own on it, and answers ok or an error; on an error
\* the ? operator returns from verify
PcsVerify ==
    /\ pc = "pcs_verify"
    /\ request' =
          [commits_and_points |->
               commits_and_points(proof.commitments, local_and_next(zeta, g_subgroup),
                                  zeta, LOG_QUOTIENT_DEGREE),
           values |-> values(proof.opened_values),
           opening_proof |-> proof.opening_proof,
           challenger |-> transcript]
    /\ pcs_calls' = pcs_calls + 1
    /\ \E absorbed \in {<<>>, <<PcsObserved(proof.opening_proof)>>} :
           transcript' = transcript \o absorbed
    /\ \E outcome \in {"ok"} \cup PcsErrors :
           /\ pcs_outcome' = outcome
           /\ IF map_err(outcome) = "ok"
              THEN pc' = "reconstruct" /\ result' = result
              ELSE pc' = "done" /\ result' = map_err(outcome)
    /\ UNCHANGED <<fvars, proof, instance, gamma, alpha, zeta, quotient, expected>>

\* chunk.iter().enumerate().map(|(i, &c)| monomial(i) * c).sum()
chunk_sum(chunk) ==
    ExtSum([i \in 1..Len(chunk) |-> ExtScale(monomial(i - 1), chunk[i])])
quotient_parts(opened_quotient) ==
    [j \in 1..Len(chunks(opened_quotient, D)) |-> chunk_sum(chunks(opened_quotient, D)[j])]
\* zeta.powers().zip(parts).map(|(zeta, part)| zeta * part).sum()
zip_sum(pows, parts) == ExtSum([j \in 1..Len(parts) |-> ExtMul(pows[j], parts[j])])
reconstruct(z, parts) == zip_sum(powers(z, Len(parts)), reverse_slice_index_bits(parts))

\* the block that computes quotient, and the Ok(()) that follows it
ReconstructQuotient ==
    /\ pc = "reconstruct"
    /\ IF reverse_slice_index_bits_panics(quotient_parts(proof.opened_values.quotient))
       THEN quotient' = quotient /\ result' = "panic"
       ELSE /\ quotient' = reconstruct(zeta, quotient_parts(proof.opened_values.quotient))
            /\ result' = "Ok"
    /\ pc' = "done"
    /\ UNCHANGED <<fvars, proof, instance, transcript, gamma, alpha, zeta, request,
                   pcs_calls, pcs_outcome, expected>>

Next ==
    \/ ObserveFixed \/ ObserveAdvice \/ ObserveInstance \/ SampleGamma
    \/ ObserveMultisetF \/ ObserveMultisetSums \/ SampleAlpha \/ ObserveQuotient
    \/ SampleZeta \/ PcsVerify \/ ReconstructQuotient

Spec == Init /\ [][Next]_vars

(***************************************************************************)
(* The properties of verify.                                               *)
(***************************************************************************)
\* the calls verify is to make on the challenger, in order
ProtocolCalls ==
    << Observed(proof.commitments.fixed),
       Observed(proof.commitments.advice),
       ObservedSlice(instance.values),
       Sampled(gamma),
       Observed(proof.commitments.multiset_f),
       ObservedSlice(to_values(proof.multiset_sums)),
       Sampled(alpha),
       Observed(proof.commitments.quotient),
       Sampled(zeta) >>
CallsBy(who) == SelectSeq(transcript, LAMBDA e : e.by = who)

\* C1: at every moment the calls verify has made on the transcript are the
\* first ones of the protocol's nine, in its order, each made once; before
\* verify_multi_batches is called only verify has used the transcript; the
\* PCS is called once all nine are made, on the transcript holding exactly
\* them, and whatever the PCS adds comes after them; a run that ends has made
\* all nine.
TranscriptOrder ==
    /\ Len(CallsBy("verify")) <= Len(ProtocolCalls)
    /\ \A i \in 1..Len(CallsBy("verify")) : CallsBy("verify")[i] = ProtocolCalls[i]
    /\ pcs_calls = 0 => CallsBy("pcs") = <<>>
    /\ pcs_calls > 0 =>
          /\ zeta \in Challenges
          /\ request.challenger = ProtocolCalls
          /\ transcript = ProtocolCalls \o CallsBy("pcs")
    /\ pc = "done" => CallsBy("verify") = ProtocolCalls

TranscriptOrderWitness ==
    /\ pc = "done" /\ result = "Ok"
    /\ Len(transcript) = Len(ProtocolCalls) + 1
    /\ gamma # alpha /\ alpha # zeta

\* C2: when verify has ended on a proof the PCS accepted and the value
\* reconstructed for the quotient at zeta is not the expected one, the result
\* is not success.
FinalCheckDecides ==
    (pc = "done" /\ pcs_outcome = "ok" /\ quotient # expected) => result # "Ok"

\* the width of a row of the trace the configuration is for
TraceWidth == 2
MalformedShape ==
    \/ Len(proof.opened_values.quotient) % D # 0
    \/ instance.width # TraceWidth

\* C3: on a proof whose opened quotient values are not a whole number of
\* chunks of D, or an instance of another width than the trace, the PCS is
\* never called and the quotient never reconstructed, and verify ends with the
\* malformed-proof error.
MalformedProofRejected ==
    MalformedShape =>
        /\ pcs_calls = 0
        /\ quotient = <<>>
        /\ pc = "done" => result = "MalformedProof"

\* C4: once the PCS has answered with an error, of whatever kind, verify has
\* ended with InvalidOpeningArgument: the quotient is not reconstructed, verify
\* has made no call on the transcript beyond the nine before the PCS call, the
\* PCS was called once, and no step of verify remains.
PcsFailureRejects ==
    pcs_outcome \in PcsErrors =>
        /\ pc = "done"
        /\ result = "InvalidOpeningArgument"
        /\ quotient = <<>>
        /\ pcs_calls = 1
        /\ CallsBy("verify") = ProtocolCalls
        /\ ~ENABLED Next

PcsFailureWitness ==
    /\ pcs_outcome = "OpeningMismatch"
    /\ pc = "done"
    /\ Len(transcript) = Len(ProtocolCalls) + 1

\* x^n by n - 1 multiplications
RECURSIVE ExtPowNaive(_, _)
ExtPowNaive(x, n) == IF n = 1 THEN x ELSE ExtMul(x, ExtPowNaive(x, n - 1))
\* g generates the subgroup of order 2^k
GeneratesOrder(g, k) ==
    /\ ValPow(g, 2^k) = 1
    /\ k > 0 => ValPow(g, 2^(k - 1)) # 1
TracePoints(g) == <<zeta, <<(zeta[1] * g) % ValP, (zeta[2] * g) % ValP>>>>

\* C10: the request handed to the PCS has four entries, for the commitments
\* fixed, advice, multiset_f and quotient in this order; the first three have
\* the points zeta and zeta * g, g generating the subgroup of order
\* 2^log_degree, and the values local and next of their polynomial; the fourth
\* has the one point zeta^(2^L) and the opened quotient values; zeta is what
\* the third sample returned; the opening proof is the proof's.
PcsRequestShape ==
    pcs_calls > 0 =>
        /\ Len(request.commits_and_points) = 4
        /\ Len(request.values) = 4
        /\ [i \in 1..4 |-> request.commits_and_points[i].commit]
             = << proof.commitments.fixed, proof.commitments.advice,
                  proof.commitments.multiset_f, proof.commitments.quotient >>
        /\ GeneratesOrder(g_subgroup, proof.log_degree)
        /\ \A i \in 1..3 :
              request.commits_and_points[i].points = TracePoints(g_subgroup)
        /\ request.commits_and_points[4].points
             = <<ExtPowNaive(zeta, 2^LOG_QUOTIENT_DEGREE)>>
        /\ request.values[1]
             = << <<proof.opened_values.fixed_local, proof.opened_values.fixed_next>> >>
        /\ request.values[2]
             = << <<proof.opened_values.advice_local, proof.opened_values.advice_next>> >>
        /\ request.values[3]
             = << <<proof.opened_values.multiset_f_local,
                    proof.opened_values.multiset_f_next>> >>
        /\ request.values[4] = << <<proof.opened_values.quotient>> >>
        /\ zeta = SelectSeq(transcript, LAMBDA e : e.call = "sample_ext_element")[3].value
        /\ request.opening_proof = proof.opening_proof

PcsRequestWitness ==
    /\ pcs_calls = 1
    /\ proof.log_degree = 2
    /\ zeta = <<3, 1>>
    /\ Len(proof.opened_values.quotient) = 4
====
